---- MODULE Spec2Model ----
(***************************************************************************)
(* The Helia IPFS microservice of server.js as a state machine: the stats  *)
(* counters, the persistent block store behind fs.addBytes / fs.cat, the   *)
(* HTTP requests in flight (one record per connection, suspended at its    *)
(* await), and the process life cycle (SIGINT, crash, restart).            *)
(*                                                                         *)
(* Bytes and characters are their numeric codes (97 is "a", 123 is "{").   *)
(* Requests carry a Content-Length header, so the body parsers of express  *)
(* always run on the (possibly empty) body.                                *)
(***************************************************************************)
EXTENDS Integers, Sequences, FiniteSets, TLC

VARIABLES totalRequests, totalCIDsStored, recentCIDs, store, reqs, proc,
          returned, issued, restarts

vars == <<totalRequests, totalCIDsStored, recentCIDs, store, reqs, proc,
          returned, issued, restarts>>

stats == <<totalRequests, totalCIDsStored, recentCIDs>>

(* ---------------------------- bounds ---------------------------------- *)
MaxInFlight == 2
MaxRequests == 2
MaxRestarts == 1
MaxChunkSize == 2

(* ------------------------ program constants --------------------------- *)
MAX_RECENT == 10

(* ------------------------- sequence helpers --------------------------- *)
Min(a, b) == IF a < b THEN a ELSE b

Take(s, n) == SubSeq(s, 1, Min(n, Len(s)))

Drop(s, n) == SubSeq(s, Min(n, Len(s)) + 1, Len(s))

RECURSIVE Concat(_)
Concat(ss) == IF ss = <<>> THEN <<>> ELSE Head(ss) \o Concat(Tail(ss))

Map(F(_), s) == [i \in 1..Len(s) |-> F(s[i])]

(* --------------------- request body conversions ----------------------- *)
\* express.text(): the body decoded as UTF-8; a byte that cannot start a
\* sequence decodes to U+FFFD.
Utf8DecodeByte(b) == IF b < 128 THEN b ELSE 65533

Utf8Decode(bytes) == Map(Utf8DecodeByte, bytes)

\* Buffer.from(str, "utf-8")
Utf8EncodePoint(cp) ==
    IF cp < 128 THEN <<cp>>
    ELSE IF cp < 2048 THEN <<192 + (cp \div 64), 128 + (cp % 64)>>
    ELSE <<224 + (cp \div 4096), 128 + ((cp \div 64) % 64), 128 + (cp % 64)>>

Utf8Encode(str) == Concat(Map(Utf8EncodePoint, str))

\* express.json(): an empty body parses to {}; otherwise the text must be a
\* JSON object or array (strict mode).  Whitespace between tokens is dropped
\* by the parse, so the parsed value is kept as its token sequence.
JsonWhitespace == {32, 9, 10, 13}

IsToken(c) == c \notin JsonWhitespace

JsonTokens(body) == SelectSeq(body, IsToken)

JsonValues == {<<123, 125>>, <<91, 93>>}

JsonParse(body) ==
    IF body = <<>> THEN [ok |-> TRUE, value |-> <<123, 125>>]
    ELSE IF JsonTokens(body) \in JsonValues
         THEN [ok |-> TRUE, value |-> JsonTokens(body)]
         ELSE [ok |-> FALSE, value |-> <<>>]

\* JSON.stringify(req.body)
JsonStringify(value) == value

(* ------------------- content addressing (fs.addBytes) ----------------- *)
\* Fixed-size chunking; the empty input is one empty chunk.
RECURSIVE Chunk(_)
Chunk(bytes) ==
    IF Len(bytes) <= MaxChunkSize THEN <<bytes>>
    ELSE <<Take(bytes, MaxChunkSize)>> \o Chunk(Drop(bytes, MaxChunkSize))

\* The digest of a block, as a sequence of 5-bit digits.  It stands for the
\* multihash: an injective function of the block's content.
ByteDigits(b) == <<b \div 32, b % 32>>

LeafDigest(bytes) == <<0>> \o Concat(Map(ByteDigits, bytes))

LinkDigits(d) == <<Len(d)>> \o d

NodeDigest(links) == <<1>> \o Concat(Map(LinkDigits, links))

LeafBlock(bytes) == [codec |-> "raw", data |-> bytes, links |-> <<>>]

NodeBlock(links) == [codec |-> "dag-pb", data |-> <<>>, links |-> links]

Digest(block) ==
    IF block.codec = "raw" THEN LeafDigest(block.data) ELSE NodeDigest(block.links)

\* The blocks fs.addBytes writes, in the order it writes them: the leaves in
\* input order, then the node linking them when there is more than one.
BlocksOf(bytes) ==
    LET leaves == Map(LeafBlock, Chunk(bytes))
    IN  IF Len(leaves) = 1 THEN leaves
        ELSE leaves \o <<NodeBlock(Map(Digest, leaves))>>

RootOf(bytes) ==
    LET blocks == BlocksOf(bytes)
        root   == blocks[Len(blocks)]
    IN  [codec |-> root.codec, digest |-> Digest(root)]

\* blockstore.put: a digest already present is left as it is.
\* Faulty put: a digest already present has its entry truncated and left so.
PutRewriting(st, block) ==
    IF Digest(block) \in DOMAIN st
    THEN [st EXCEPT ![Digest(block)] = [block EXCEPT !.data = <<>>, !.links = <<>>]]
    ELSE (Digest(block) :> block) @@ st

Put(st, block) ==
    IF Digest(block) \in DOMAIN st THEN st ELSE (Digest(block) :> block) @@ st

(* ----------------------- CID strings (CID.parse) ---------------------- *)
\* base32 lower-case alphabet a-z2-7
Digit32Char(d) == IF d < 26 THEN 97 + d ELSE 50 + (d - 26)

IsDigit32Char(c) == (c >= 97 /\ c <= 122) \/ (c >= 50 /\ c <= 55)

CharDigit32(c) == IF c >= 97 THEN c - 97 ELSE c - 50 + 26

CodecChar(codec) == IF codec = "raw" THEN 107 ELSE 121

\* cid.toString(): multibase prefix "b", the codec, the digest
CidToString(cid) == <<98, CodecChar(cid.codec)>> \o Map(Digit32Char, cid.digest)

\* CID.parse(str): the prefix selects the base32 decoder, which accepts the
\* lower-case alphabet only.
CidParse(str) ==
    IF /\ Len(str) >= 3
       /\ str[1] = 98
       /\ str[2] \in {107, 121}
       /\ \A i \in 3..Len(str) : IsDigit32Char(str[i])
    THEN [ok |-> TRUE,
          cid |-> [codec  |-> IF str[2] = 107 THEN "raw" ELSE "dag-pb",
                   digest |-> Map(CharDigit32, Drop(str, 2))]]
    ELSE [ok |-> FALSE, cid |-> [codec |-> "raw", digest |-> <<>>]]

\* String.prototype.toLowerCase
LowerChar(c) == IF c >= 65 /\ c <= 90 THEN c + 32 ELSE c

ToLowerCase(str) == Map(LowerChar, str)

UpperChar(c) == IF c >= 97 /\ c <= 122 THEN c - 32 ELSE c

ToUpperCase(str) == Map(UpperChar, str)

(* ----------------------------- fs.cat --------------------------------- *)
\* The bytes fs.cat(cid) yields from the blocks of st, or found = FALSE when
\* a block on the path is not in st.
CatStore(st, cid) ==
    IF cid.digest \notin DOMAIN st \/ st[cid.digest].codec # cid.codec
    THEN [found |-> FALSE, data |-> <<>>]
    ELSE LET block == st[cid.digest]
         IN  IF block.codec = "raw" THEN [found |-> TRUE, data |-> block.data]
             ELSE IF \A i \in 1..Len(block.links) : block.links[i] \in DOMAIN st
                  THEN [found |-> TRUE,
                        data  |-> Concat([i \in 1..Len(block.links) |->
                                             st[block.links[i]].data])]
                  ELSE [found |-> FALSE, data |-> <<>>]

(* ------------------------------ requests ------------------------------ *)
\* What a client sends: the route, the body bytes (the path parameter for
\* /cat/:cid), and for /add/file the multipart field that carries the file.
In(route, body, field) == [route |-> route, body |-> body, field |-> field]

NoInput == In("none", <<>>, "none")

NoCid == [codec |-> "raw", digest |-> <<>>]

NoRes == [status |-> 0, cid |-> <<>>, data |-> <<>>, error |-> "", info |-> <<>>]

\* res.json({ cid: cid.toString() })
CidRes(str) == [NoRes EXCEPT !.status = 200, !.cid = str]

\* res.send(buffer)
DataRes(bytes) == [NoRes EXCEPT !.status = 200, !.data = bytes]

\* res.status(code).json({ error: message })
ErrorRes(code, message) == [NoRes EXCEPT !.status = code, !.error = message]

\* res.json(info) of GET /status
InfoRes(requests, stored, recent) ==
    [NoRes EXCEPT !.status = 200, !.info = <<requests, stored, recent>>]

IdleReq == [st |-> "idle", in |-> NoInput, handed |-> <<>>, todo |-> <<>>,
            cid |-> NoCid, conc |-> FALSE, res |-> NoRes]

AddRoutes == {"text", "file", "json", "raw"}

InFlight(q) == reqs[q].st \in {"addBytes", "cat"}

\* A new request takes the first connection with nothing pending on it.
Free(r) ==
    /\ proc = "up" /\ r \in DOMAIN reqs /\ ~InFlight(r)
    /\ \A q \in DOMAIN reqs : q < r => InFlight(q)

\* The handler has called fs.addBytes(buffer) and is suspended at the await.
AwaitAddBytes(r, in, buffer) ==
    [IdleReq EXCEPT !.st = "addBytes", !.in = in, !.handed = buffer,
                    !.todo = BlocksOf(buffer),
                    !.conc = \E q \in DOMAIN reqs : q # r /\ reqs[q].st = "addBytes"]

Respond(in, res) == [IdleReq EXCEPT !.st = "done", !.in = in, !.res = res]

FailMessage(route) ==
    CASE route = "text" -> "Failed to add text"
      [] route = "file" -> "Failed to add file"
      [] route = "json" -> "Failed to add JSON"
      [] OTHER          -> "Failed to add raw data"

(* ------------------------------- state -------------------------------- *)
InitOver(slots) ==
    /\ totalRequests = 0
    /\ totalCIDsStored = 0
    /\ recentCIDs = <<>>
    /\ store = <<>>
    /\ reqs = [r \in 1..slots |-> IdleReq]
    /\ proc = "up"
    /\ returned = {}
    /\ issued = 0
    /\ restarts = 0

(* ------------------------------ trackCID ------------------------------ *)
\* Faulty trackCID: the counter update is lost while another add is in flight.
TrackCIDRacy(cid) ==
    LET str     == CidToString(cid)
        shifted == <<str>> \o recentCIDs
        others  == Cardinality({q \in DOMAIN reqs : reqs[q].st = "addBytes"}) > 1
    IN  [total  |-> IF others THEN totalCIDsStored ELSE totalCIDsStored + 1,
         recent |-> IF Len(shifted) > MAX_RECENT
                    THEN SubSeq(shifted, 1, Len(shifted) - 1) ELSE shifted]

\* Faulty trackCID: push instead of unshift, so the newest entry is the one dropped.
TrackCIDPush(cid) ==
    LET str    == CidToString(cid)
        pushed == recentCIDs \o <<str>>
    IN  [total  |-> totalCIDsStored + 1,
         recent |-> IF Len(pushed) > MAX_RECENT
                    THEN SubSeq(pushed, 1, Len(pushed) - 1) ELSE pushed]

\* totalCIDsStored++; recentCIDs.unshift(str); pop when longer than MAX_RECENT
TrackCID(cid) ==
    LET str     == CidToString(cid)
        shifted == <<str>> \o recentCIDs
    IN  [total  |-> totalCIDsStored + 1,
         recent |-> IF Len(shifted) > MAX_RECENT
                    THEN SubSeq(shifted, 1, Len(shifted) - 1) ELSE shifted]

(* --------------------------- POST /add/text --------------------------- *)
\* Buffer.from(req.body, "utf-8") of the string express.text() decoded
TextBuffer(body) == Utf8Encode(Utf8Decode(body))

AddText(r, in) ==
    /\ Free(r) /\ in.route = "text"
    /\ totalRequests' = totalRequests + 1
    /\ reqs' = [reqs EXCEPT ![r] = AwaitAddBytes(r, in, TextBuffer(in.body))]
    /\ issued' = issued + 1
    /\ UNCHANGED <<totalCIDsStored, recentCIDs, store, proc, returned, restarts>>

(* --------------------------- POST /add/file --------------------------- *)
\* upload.single("file"): a file under another field is a MulterError, which
\* goes to the error-handling middleware; no file at all leaves req.file unset.
AddFile(r, in) ==
    /\ Free(r) /\ in.route = "file"
    /\ totalRequests' = totalRequests + 1
    /\ reqs' = [reqs EXCEPT ![r] =
                  IF in.field = "other"
                  THEN Respond(in, ErrorRes(500, "Internal server error"))
                  ELSE IF in.field # "file"
                  THEN Respond(in, ErrorRes(400, "No file uploaded"))
                  ELSE AwaitAddBytes(r, in, in.body)]
    /\ issued' = issued + 1
    /\ UNCHANGED <<totalCIDsStored, recentCIDs, store, proc, returned, restarts>>

(* --------------------------- POST /add/json --------------------------- *)
\* express.json() runs before the request counter: a body it cannot parse
\* goes straight to the error-handling middleware.
JsonBuffer(body) == JsonStringify(JsonParse(body).value)

AddJson(r, in) ==
    /\ Free(r) /\ in.route = "json"
    /\ IF JsonParse(in.body).ok
       THEN /\ totalRequests' = totalRequests + 1
            /\ reqs' = [reqs EXCEPT ![r] = AwaitAddBytes(r, in, JsonBuffer(in.body))]
       ELSE /\ totalRequests' = totalRequests
            /\ reqs' = [reqs EXCEPT ![r] =
                          Respond(in, ErrorRes(500, "Internal server error"))]
    /\ issued' = issued + 1
    /\ UNCHANGED <<totalCIDsStored, recentCIDs, store, proc, returned, restarts>>

(* --------------------------- POST /add/raw ---------------------------- *)
AddRaw(r, in) ==
    /\ Free(r) /\ in.route = "raw"
    /\ totalRequests' = totalRequests + 1
    /\ reqs' = [reqs EXCEPT ![r] =
                  IF Len(in.body) = 0
                  THEN Respond(in, ErrorRes(400, "Empty body"))
                  ELSE AwaitAddBytes(r, in, in.body)]
    /\ issued' = issued + 1
    /\ UNCHANGED <<totalCIDsStored, recentCIDs, store, proc, returned, restarts>>

(* ------------------ fs.addBytes and the code after it ----------------- *)
\* fs.addBytes writes its next block.
BlockPut(r) ==
    /\ proc # "down" /\ r \in DOMAIN reqs
    /\ reqs[r].st = "addBytes" /\ reqs[r].todo # <<>>
    /\ store' = Put(store, Head(reqs[r].todo))
    /\ reqs' = [reqs EXCEPT ![r].todo = Tail(@)]
    /\ UNCHANGED <<stats, proc, returned, issued, restarts>>

\* Faulty handler: fs.addBytes is not awaited.
AddBytesSettledEarly(r) == reqs[r].st = "addBytes"

\* await fs.addBytes(buffer) resumes once every block is written.
AddBytesSettled(r) == reqs[r].st = "addBytes" /\ reqs[r].todo = <<>>

\* Faulty handler: the file route wraps its content, so its CID has another codec.
AddResponseCidByRoute(r, cid) ==
    IF reqs[r].in.route = "file"
    THEN CidToString([cid EXCEPT !.codec = "dag-pb"])
    ELSE CidToString(cid)

\* cid.toString() of the response body: the same for every route
AddResponseCid(r, cid) == CidToString(cid)

\* trackCID(cid); res.json({ cid: cid.toString() })
AddResolved(r) ==
    /\ proc # "down" /\ r \in DOMAIN reqs
    /\ AddBytesSettled(r)
    /\ LET cid     == RootOf(reqs[r].handed)
           tracked == TrackCID(cid)
       IN  /\ totalCIDsStored' = tracked.total
           /\ recentCIDs' = tracked.recent
           /\ reqs' = [reqs EXCEPT ![r].st = "done",
                                   ![r].res = CidRes(AddResponseCid(r, cid))]
           /\ returned' = returned \cup {<<AddResponseCid(r, cid), reqs[r].handed>>}
    /\ UNCHANGED <<totalRequests, store, proc, issued, restarts>>

\* fs.addBytes rejects (an I/O error of the block store): the catch block.
AddRejected(r) ==
    /\ proc # "down" /\ r \in DOMAIN reqs
    /\ reqs[r].st = "addBytes" /\ reqs[r].todo # <<>>
    /\ reqs' = [reqs EXCEPT ![r].st = "done",
                            ![r].todo = <<>>,
                            ![r].res = ErrorRes(500, FailMessage(reqs[r].in.route))]
    /\ UNCHANGED <<stats, store, proc, returned, issued, restarts>>

(* ----------------------------- GET /cat/:cid -------------------------- *)
\* Faulty handler: the path parameter is parsed as it came.
CatParam(str) == str

\* req.params.cid.toLowerCase()
CatParamLower(str) == ToLowerCase(str)

\* CID.parse throws on a malformed string: the catch block answers 404.
\* Otherwise the handler is suspended in the for-await over fs.cat(cid).
CatRequest(r, in) ==
    /\ Free(r) /\ in.route = "cat"
    /\ totalRequests' = totalRequests + 1
    /\ LET parsed == CidParse(CatParamLower(in.body))
       IN  reqs' = [reqs EXCEPT ![r] =
                      IF parsed.ok
                      THEN [IdleReq EXCEPT !.st = "cat", !.in = in, !.cid = parsed.cid]
                      ELSE Respond(in, ErrorRes(404, "Invalid or not found CID"))]
    /\ issued' = issued + 1
    /\ UNCHANGED <<totalCIDsStored, recentCIDs, store, proc, returned, restarts>>

\* Faulty handler: only the first chunk fs.cat yielded is sent.
CatBodyFirstChunk(st, cid) ==
    IF st[cid.digest].codec = "raw" THEN st[cid.digest].data
    ELSE st[st[cid.digest].links[1]].data

\* Buffer.concat(chunks) of the chunks fs.cat yielded
CatBody(st, cid) == CatStore(st, cid).data

\* Every block is in the store: the loop ends and res.send(buffer) answers.
CatResolved(r) ==
    /\ proc # "down" /\ r \in DOMAIN reqs
    /\ reqs[r].st = "cat"
    /\ CatStore(store, reqs[r].cid).found
    /\ reqs' = [reqs EXCEPT ![r].st = "done",
                            ![r].res = DataRes(CatBody(store, reqs[r].cid))]
    /\ UNCHANGED <<stats, store, proc, returned, issued, restarts>>

\* A block is not in the store: fs.cat is called without a signal or a
\* timeout and waits on the node's block brokers for it.  It resumes above
\* when the block arrives; it may also reject, which the catch block answers.
CatRejected(r) ==
    /\ proc # "down" /\ r \in DOMAIN reqs
    /\ reqs[r].st = "cat"
    /\ ~CatStore(store, reqs[r].cid).found
    /\ reqs' = [reqs EXCEPT ![r].st = "done",
                            ![r].res = ErrorRes(404, "Invalid or not found CID")]
    /\ UNCHANGED <<stats, store, proc, returned, issued, restarts>>

(* ------------------------------ GET /status --------------------------- *)
Status(r, in) ==
    /\ Free(r) /\ in.route = "status"
    /\ totalRequests' = totalRequests + 1
    /\ reqs' = [reqs EXCEPT ![r] =
                  Respond(in, InfoRes(totalRequests', totalCIDsStored, recentCIDs))]
    /\ issued' = issued + 1
    /\ UNCHANGED <<totalCIDsStored, recentCIDs, store, proc, returned, restarts>>

(* --------------------------- process life cycle ----------------------- *)
\* process.on("SIGINT"): the handler is suspended at await helia.stop().
Sigint ==
    /\ proc = "up" /\ restarts < MaxRestarts
    /\ proc' = "stopping"
    /\ UNCHANGED <<stats, store, reqs, returned, issued, restarts>>

\* process.exit(0): the connections and the stats go with the process.
Exit ==
    /\ proc = "stopping"
    /\ proc' = "down"
    /\ reqs' = [r \in DOMAIN reqs |-> IdleReq]
    /\ UNCHANGED <<stats, store, returned, issued, restarts>>

\* The process dies without running the SIGINT handler (the container is run
\* with --restart unless-stopped).
Crash ==
    /\ proc = "up" /\ restarts < MaxRestarts
    /\ proc' = "down"
    /\ reqs' = [r \in DOMAIN reqs |-> IdleReq]
    /\ UNCHANGED <<stats, store, returned, issued, restarts>>

\* Faulty setup: a block store kept in memory, empty on every start.
StartStoreMemory(st) == <<>>

\* new FsBlockstore(blockstorePath): the directory of the previous run
StartStore(st) == st

\* node server.js: the module-level initialisers run again.
Start ==
    /\ proc = "down"
    /\ proc' = "up"
    /\ totalRequests' = 0
    /\ totalCIDsStored' = 0
    /\ recentCIDs' = <<>>
    /\ store' = StartStore(store)
    /\ restarts' = restarts + 1
    /\ UNCHANGED <<reqs, returned, issued>>

(* ------------------------------ the clients --------------------------- *)
EmptyBytes == <<>>

OneChunk == <<97>>

TwoChunks == <<97, 97, 97>>

NotUtf8 == <<255>>

NotACid == <<110, 111, 116, 45, 97, 45, 99, 105, 100>>

CidOf(bytes) == CidToString(RootOf(bytes))

\* The string with its first character in upper case only.
Capitalised(str) == <<UpperChar(str[1])>> \o Tail(str)

CaseVariants(str) == {str, ToUpperCase(str), Capitalised(str)}

Inputs ==
    {In("text", EmptyBytes, "none"), In("text", NotUtf8, "none"),
     In("json", EmptyBytes, "none"), In("json", <<123>>, "none"),
     In("json", <<123, 32, 125>>, "none"),
     In("raw", EmptyBytes, "none"), In("raw", TwoChunks, "none"),
     In("file", EmptyBytes, "none"), In("file", EmptyBytes, "file"),
     In("file", OneChunk, "other"),
     In("cat", NotACid, "none"), In("status", <<>>, "none")}
    \cup {In("cat", s, "none") : s \in CaseVariants(CidOf(EmptyBytes))
                                       \cup CaseVariants(CidOf(TwoChunks))}

StatsInputs ==
    {In("text", OneChunk, "none"), In("json", EmptyBytes, "none"),
     In("raw", OneChunk, "none"), In("file", EmptyBytes, "none"),
     In("cat", CidOf(OneChunk), "none"), In("status", <<>>, "none")}

(* ---------------------------- specifications -------------------------- *)
Serve(inputs, cap) ==
    \/ \E r \in DOMAIN reqs, in \in inputs : issued < cap /\ AddText(r, in)
    \/ \E r \in DOMAIN reqs, in \in inputs : issued < cap /\ AddFile(r, in)
    \/ \E r \in DOMAIN reqs, in \in inputs : issued < cap /\ AddJson(r, in)
    \/ \E r \in DOMAIN reqs, in \in inputs : issued < cap /\ AddRaw(r, in)
    \/ \E r \in DOMAIN reqs, in \in inputs : issued < cap /\ CatRequest(r, in)
    \/ \E r \in DOMAIN reqs, in \in inputs : issued < cap /\ Status(r, in)
    \/ \E r \in DOMAIN reqs : BlockPut(r)
    \/ \E r \in DOMAIN reqs : AddResolved(r)
    \/ \E r \in DOMAIN reqs : AddRejected(r)
    \/ \E r \in DOMAIN reqs : CatResolved(r)
    \/ \E r \in DOMAIN reqs : CatRejected(r)

Lifecycle ==
    \/ Sigint
    \/ Exit
    \/ Crash
    \/ Start

Init == InitOver(MaxInFlight)

Next == Serve(Inputs, MaxRequests) \/ Lifecycle

Spec == Init /\ [][Next]_vars

\* The stats over one long run of the process, its requests served one at a
\* time.
InitStats == InitOver(1)

\* Enough requests to fill recentCIDs, overflow it and look at it.
StatsRequests == MAX_RECENT + 2

NextStats == Serve(StatsInputs, StatsRequests)

StatsSpec == InitStats /\ [][NextStats]_vars

\* The event loop runs every continuation that is ready, helia.stop()
\* returns, and the container is restarted (--restart unless-stopped).
\* Nothing makes a client send a request, the process receive a signal,
\* or fs.addBytes / fs.cat reject.
NextLive == Serve(StatsInputs, MaxRequests) \/ Lifecycle

Fairness ==
    /\ \A r \in 1..MaxInFlight : WF_vars(BlockPut(r))
    /\ \A r \in 1..MaxInFlight : WF_vars(AddResolved(r))
    /\ \A r \in 1..MaxInFlight : WF_vars(CatResolved(r))
    /\ WF_vars(Exit)
    /\ WF_vars(Start)

LiveSpec == InitStats /\ [][NextLive]_vars /\ Fairness

(* ======================= the claims, C1 to C10 ======================== *)
Slots == DOMAIN reqs

Done(r) == reqs[r].st = "done"

IsAdd(r) == reqs[r].in.route \in AddRoutes

IsCat(r) == reqs[r].in.route = "cat"

Answered(r, status) == Done(r) /\ reqs[r].res.status = status

\* The catch block of an add handler answered: fs.addBytes rejected.
AddFailed(r) ==
    Answered(r, 500) /\ IsAdd(r) /\ reqs[r].res.error = FailMessage(reqs[r].in.route)

\* GET /cat/str on the blocks now in the store yields exactly bytes.
Retrievable(str, bytes) ==
    /\ CidParse(str).ok
    /\ CatStore(store, CidParse(str).cid) = [found |-> TRUE, data |-> bytes]

\* The request carries a byte sequence for its route to store.
CarriesBytes(in) ==
    \/ in.route \in {"text", "raw"}
    \/ in.route = "file" /\ in.field = "file"
    \/ in.route = "json" /\ JsonParse(in.body).ok

\* The two strings differ at most in the case of their letters.
SameLetter(c, d) ==
    \/ c = d
    \/ c >= 65 /\ c <= 90 /\ d = c + 32
    \/ d >= 65 /\ d <= 90 /\ c = d + 32

SameIgnoringCase(a, b) ==
    Len(a) = Len(b) /\ \A i \in 1..Len(a) : SameLetter(a[i], b[i])

\* Request r is answered in this step.
Answers(r) == InFlight(r) /\ reqs'[r].st = "done"

\* Request r arrives in this step.
Arrives(r) == ~InFlight(r) /\ issued' = issued + 1 /\ reqs'[r] # reqs[r]

EmptyOrMalformed(in) ==
    \/ in.route \in {"text", "raw"} /\ in.body = <<>>
    \/ in.route = "json" /\ (in.body = <<>> \/ ~JsonParse(in.body).ok)
    \/ in.route = "file" /\ in.field = "none"

\* C2: an add request whose payload is empty or malformed (empty text, JSON
\* or raw body, unparseable JSON, no file in the "file" field) is answered
\* 400, never 200 or 500; every other answer of an add route is 200 with a
\* CID or 500 with an error.
C2_EmptyOrMalformedIs400 ==
    \A r \in Slots :
        (Done(r) /\ IsAdd(r))
            => IF EmptyOrMalformed(reqs[r].in)
               THEN Answered(r, 400) /\ reqs[r].res.error # ""
               ELSE \/ Answered(r, 200) /\ reqs[r].res.cid # <<>>
                    \/ Answered(r, 500) /\ reqs[r].res.error # ""

(* ---- C3 ---- *)
\* C3: every GET /cat/:cid that has been accepted is eventually answered (a
\* malformed or unknown CID with 404); none stays without a response.
C3_CatIsAnswered ==
    \A r \in 1..MaxInFlight :
        (r \in Slots /\ reqs[r].st = "cat") ~> (r \in Slots /\ reqs[r].st # "cat")

(* ---- C4 ---- *)
\* Every CID string a caller can see: in an add response, in recentCIDs, in
\* a /status response.
Exposed ==
    {recentCIDs[i] : i \in 1..Len(recentCIDs)}
    \cup {reqs[r].res.cid : r \in {q \in Slots : Answered(q, 200) /\ IsAdd(q)}}
    \cup UNION {{reqs[r].res.info[3][i] : i \in 1..Len(reqs[r].res.info[3])} :
                   r \in {q \in Slots : Done(q) /\ reqs[q].in.route = "status"}}

C4_ExposedIsStored ==
    /\ \A str \in Exposed : CidParse(str).ok /\ CatStore(store, CidParse(str).cid).found
    /\ \A r \in Slots : reqs[r].st = "addBytes" => reqs[r].res = NoRes

C4_FailedAddKeepsStats ==
    \A r \in Slots :
        (reqs[r].st = "addBytes" /\ Answers(r) /\ reqs'[r].res.status # 200)
            => UNCHANGED <<totalCIDsStored, recentCIDs>>

\* C4: a CID is exposed only once fs.addBytes has written every block of it,
\* so every exposed CID is retrievable from the store; an add still in
\* flight has exposed nothing; and a failed add leaves totalCIDsStored and
\* recentCIDs as they were.
C4_AtomicAdd == []C4_ExposedIsStored /\ [][C4_FailedAddKeepsStats]_vars

\* One add failed and another succeeded, and only the second is tracked.
C4_Witness ==
    \E r, q \in Slots :
        /\ AddFailed(r) /\ Answered(q, 200) /\ IsAdd(q)
        /\ recentCIDs = <<reqs[q].res.cid>> /\ totalCIDsStored = 1

(* ---- C5 ---- *)
C5_NoLostUpdate ==
    /\ \A r \in Slots :
          (reqs[r].st = "addBytes" /\ Answers(r) /\ reqs'[r].res.status = 200)
              => /\ totalCIDsStored' = totalCIDsStored + 1
                 /\ reqs'[r].res.cid = CidOf(reqs[r].handed)
    /\ \A r, q \in Slots :
          (r # q /\ reqs[r].st = "addBytes" /\ Answers(r)) => reqs'[q] = reqs[q]

C5_OwnPayload ==
    /\ \A p, q \in returned : (p[1] = q[1]) => (p[2] = q[2])
    /\ \A p \in returned : Retrievable(p[1], p[2])
    /\ \A r \in Slots :
          (Done(r) /\ IsAdd(r) /\ reqs[r].conc /\ ~Answered(r, 200)) => AddFailed(r)

\* C5: adds in flight together do not interfere.  Each one that fs.addBytes
\* does not fail is answered 200 with the CID of its own payload and raises
\* totalCIDsStored by exactly one, whatever the other requests are doing;
\* distinct payloads get distinct CIDs, each retrieving its own payload.
C5_ConcurrentAdds == []C5_OwnPayload /\ [][C5_NoLostUpdate]_vars

\* Two adds of distinct payloads were in flight together and both succeeded.
C5_Witness ==
    \E r, q \in Slots :
        /\ r # q /\ Answered(r, 200) /\ Answered(q, 200) /\ IsAdd(r) /\ IsAdd(q)
        /\ reqs[q].conc /\ reqs[r].handed # reqs[q].handed
        /\ reqs[r].res.cid # reqs[q].res.cid
        /\ totalCIDsStored = 2

(* ---- C6 ---- *)
C6_StoreSurvives ==
    (proc = "down" \/ restarts > 0) => \A p \in returned : Retrievable(p[1], p[2])

C6_StatsStartAgain ==
    (proc = "down" /\ proc' = "up")
        => /\ totalRequests' = 0 /\ totalCIDsStored' = 0 /\ recentCIDs' = <<>>
           /\ store' = store

\* C6: when the process stops (SIGINT or crash) and starts again on the same
\* block store directory, every CID returned by a successful add before is
\* still retrievable with the same bytes, and the stats start from zero.
C6_Persistence == []C6_StoreSurvives /\ [][C6_StatsStartAgain]_vars

\* After a restart, with the stats empty, a CID returned before was read back.
C6_Witness ==
    /\ restarts > 0 /\ totalCIDsStored = 0 /\ recentCIDs = <<>>
    /\ \E r \in Slots : \E p \in returned :
          /\ Answered(r, 200) /\ IsCat(r) /\ reqs[r].in.body = p[1]
          /\ reqs[r].res.data = p[2]

(* ---- C7 ---- *)
C7_ParsedAlike ==
    \A r \in Slots : \A p \in returned :
        (Arrives(r) /\ reqs'[r].in.route = "cat"
                    /\ SameIgnoringCase(reqs'[r].in.body, p[1]))
            => reqs'[r].st = "cat" /\ reqs'[r].cid = CidParse(p[1]).cid

C7_AnsweredAlike ==
    \A r \in Slots : \A p \in returned :
        (reqs[r].st = "cat" /\ Answers(r) /\ SameIgnoringCase(reqs[r].in.body, p[1]))
            => reqs'[r].res = DataRes(p[2])

\* C7: a GET /cat whose parameter differs from a returned CID string only in
\* the case of its letters resolves to the same CID and is answered with the
\* same bytes.
C7_CaseInsensitive == [][C7_ParsedAlike /\ C7_AnsweredAlike]_vars

\* A CID written with upper-case letters was answered with the stored bytes.
C7_Witness ==
    \E r \in Slots : \E p \in returned :
        /\ Answered(r, 200) /\ IsCat(r)
        /\ reqs[r].in.body # p[1] /\ SameIgnoringCase(reqs[r].in.body, p[1])
        /\ reqs[r].res.data = p[2]

AlreadyStored(bytes) ==
    \A i \in 1..Len(BlocksOf(bytes)) : Digest(BlocksOf(bytes)[i]) \in DOMAIN store

C9_ReAddKeepsStore ==
    /\ \A d \in DOMAIN store : d \in DOMAIN store' /\ store'[d] = store[d]
    /\ \A r \in Slots :
          (reqs[r].st = "addBytes" /\ AlreadyStored(reqs[r].handed)
                                   /\ reqs'[r] # reqs[r])
              => store' = store /\ totalRequests' = totalRequests

\* C9: adding content whose blocks are all in the store changes no entry of
\* the store: no entry is added, none is rewritten.  What the repeated add
\* changes is the stats, through trackCID.
C9_IdempotentWrite == [][C9_ReAddKeepsStore]_vars

\* The same content was added twice: tracked twice, stored once.
C9_Witness ==
    /\ totalCIDsStored = 2 /\ Len(recentCIDs) = 2 /\ recentCIDs[1] = recentCIDs[2]
    /\ \E p \in returned :
          /\ p[1] = recentCIDs[1]
          /\ DOMAIN store = {Digest(BlocksOf(p[2])[i]) : i \in 1..Len(BlocksOf(p[2]))}

(* ---- C10 ---- *)
C10_Shape ==
    /\ Len(recentCIDs) = Min(totalCIDsStored, MAX_RECENT)
    /\ totalCIDsStored <= totalRequests

C10_Steps ==
    /\ totalCIDsStored' \in {totalCIDsStored, totalCIDsStored + 1}
    /\ \A r \in Slots :
          (reqs[r].st = "addBytes" /\ Answers(r) /\ reqs'[r].res.status = 200)
              => /\ totalCIDsStored' = totalCIDsStored + 1
                 /\ recentCIDs' = Take(<<reqs'[r].res.cid>> \o recentCIDs, MAX_RECENT)
    /\ (totalCIDsStored' = totalCIDsStored) => (recentCIDs' = recentCIDs)
    /\ \A r \in Slots :
          (Arrives(r) /\ reqs'[r].in.route = "status")
              => /\ totalRequests' = totalRequests + 1
                 /\ UNCHANGED <<totalCIDsStored, recentCIDs, store>>
                 /\ reqs'[r].res.info = <<totalRequests', totalCIDsStored, recentCIDs>>

\* C10: within a run of the process, recentCIDs has min(totalCIDsStored, 10)
\* entries; a successful add raises totalCIDsStored by one and puts its CID
\* string in front of recentCIDs, dropping the oldest beyond 10; nothing else
\* changes either of them; totalCIDsStored <= totalRequests; and GET /status
\* only counts itself in totalRequests.
C10_Stats == []C10_Shape /\ [][C10_Steps]_vars

\* An eleventh CID was stored, the oldest dropped, and /status reports it.
C10_Witness ==
    /\ totalCIDsStored = MAX_RECENT + 1 /\ Len(recentCIDs) = MAX_RECENT
    /\ recentCIDs[1] # recentCIDs[MAX_RECENT]
    /\ \E r \in Slots :
          /\ Done(r) /\ reqs[r].in.route = "status"
          /\ reqs[r].res.info = <<totalRequests, totalCIDsStored, recentCIDs>>
====
